---- MODULE Spec2Model ----
(***************************************************************************)
(* A model of the bmfa bitmap font atlas container codec                   *)
(* (src/src/bitmap_font_atlas.rs): the atlas data model, the origin        *)
(* dependent row flip of BitmapFontAtlasBuilder::build and to_writer, and  *)
(* the read and write pipelines from_reader, load, to_writer and           *)
(* write_to_file over a two entry archive.                                 *)
(***************************************************************************)
EXTENDS Integers, Sequences, FiniteSets, TLC

(***************************************************************************)
(* Bounds of the model.                                                    *)
(***************************************************************************)
\* Largest image width, image height and metadata `dimensions`, in pixels.
MaxDim == 3

\* Channels of an RGBA pixel: the `4 *` of the row stride and of ColorType::RGBA(8).
BytesPerPixel == 4
\* Number of values of a u8.
ByteRange == 256

(***************************************************************************)
(* Data model.                                                             *)
(***************************************************************************)
\* enum Origin
Origin == {"TopLeft", "BottomLeft"}

\* GlyphMetadata::new; the f32 fields are held in tenths (1 stands for 0.1).
GlyphMetadataNew(code_point, row, column, width, height, x_min, y_min, y_offset) ==
    [code_point |-> code_point, row |-> row, column |-> column,
     x_min |-> x_min, width |-> width, height |-> height,
     y_min |-> y_min, y_offset |-> y_offset]

\* BitmapFontAtlasImage::new
BitmapFontAtlasImageNew(data, width, height, origin) ==
    [origin |-> origin, width |-> width, height |-> height, data |-> data]

\* BitmapFontAtlas::new
BitmapFontAtlasNew(metadata, image) ==
    [origin |-> metadata.origin,
     dimensions |-> metadata.dimensions,
     columns |-> metadata.columns,
     rows |-> metadata.rows,
     padding |-> metadata.padding,
     slot_glyph_size |-> metadata.slot_glyph_size,
     glyph_size |-> metadata.glyph_size,
     glyph_metadata |-> metadata.glyph_metadata,
     image |-> image]

\* BitmapFontAtlas::metadata
Metadata(atlas) ==
    [origin |-> atlas.origin,
     dimensions |-> atlas.dimensions,
     columns |-> atlas.columns,
     rows |-> atlas.rows,
     padding |-> atlas.padding,
     slot_glyph_size |-> atlas.slot_glyph_size,
     glyph_size |-> atlas.glyph_size,
     glyph_metadata |-> atlas.glyph_metadata]

\* BitmapFontAtlasImage::len_bytes
LenBytes(image) == Len(image.data)

\* BitmapFontAtlasBuilder::new
BitmapFontAtlasBuilderNew(metadata, image) ==
    [metadata |-> metadata, image |-> image]

(***************************************************************************)
(* The row flip.  A buffer is a sequence of bytes; Rust's index i is the   *)
(* sequence's position i + 1.  An index past the end of the Vec panics,    *)
(* which the model records as the value Panicked.                          *)
(***************************************************************************)
Panicked == <<-1>>

\* SwapBytes with the temporary forgotten: the second store reads the byte the first
\* store has just written.  C7 does not hold of it.
SwapBytesNoTemp(data, i, j) ==
    IF i >= Len(data) \/ j >= Len(data)
    THEN Panicked
    ELSE LET d1 == [data EXCEPT ![i + 1] = data[j + 1]]
         IN  [d1 EXCEPT ![j + 1] = d1[i + 1]]

\* The three statements of the inner loop body: a swap through `temp`.
SwapBytes(data, i, j) ==
    IF i >= Len(data) \/ j >= Len(data)
    THEN Panicked
    ELSE LET temp == data[i + 1]
             d1 == [data EXCEPT ![i + 1] = data[j + 1]]
         IN  [d1 EXCEPT ![j + 1] = temp]

\* FlipCols over the inclusive range 0..=width_in_bytes: one pass too many.  C11 does
\* not hold of it.
RECURSIVE FlipColsInclusive(_, _, _, _, _)
FlipColsInclusive(data, row, col, height, width_in_bytes) ==
    IF data = Panicked \/ col > width_in_bytes
    THEN data
    ELSE FlipColsInclusive(SwapBytes(data, row * width_in_bytes + col,
                                     ((height - row - 1) * width_in_bytes) + col),
                           row, col + 1, height, width_in_bytes)

\* for col in 0..width_in_bytes
RECURSIVE FlipCols(_, _, _, _, _)
FlipCols(data, row, col, height, width_in_bytes) ==
    IF data = Panicked \/ col >= width_in_bytes
    THEN data
    ELSE FlipCols(SwapBytes(data, row * width_in_bytes + col,
                            ((height - row - 1) * width_in_bytes) + col),
                  row, col + 1, height, width_in_bytes)

\* for row in 0..half_height
RECURSIVE FlipRowsFrom(_, _, _, _, _)
FlipRowsFrom(data, row, half_height, height, width_in_bytes) ==
    IF data = Panicked \/ row >= half_height
    THEN data
    ELSE FlipRowsFrom(FlipCols(data, row, 0, height, width_in_bytes),
                      row + 1, half_height, height, width_in_bytes)

\* FlipImage with the half height taken of height - 1: the two middle rows of an even
\* height stay where they are.  C10 does not hold of it.
FlipImageShortHalf(image) ==
    LET height == image.height
        width_in_bytes == BytesPerPixel * image.width
        half_height == (image.height - 1) \div 2
    IN  FlipRowsFrom(image.data, 0, half_height, height, width_in_bytes)

\* The body of `if origin == Origin::BottomLeft { ... }`, the same in build and to_writer.
FlipImage(image) ==
    LET height == image.height
        width_in_bytes == BytesPerPixel * image.width
        half_height == image.height \div 2
    IN  FlipRowsFrom(image.data, 0, half_height, height, width_in_bytes)

\* The indices one pass of the inner loop body goes to, in order: the read of line 248,
\* the read and the store of line 249, the store of line 250.  An index past the end is
\* the last one: the panic ends the loop.
SwapTouched(data, i, j) ==
    IF i >= Len(data) THEN <<i>>
    ELSE IF j >= Len(data) THEN <<i, j>>
    ELSE <<i, j, i, j>>

\* The indices `for col in 0..width_in_bytes` goes to.
RECURSIVE ColsTouched(_, _, _, _, _)
ColsTouched(data, row, col, height, width_in_bytes) ==
    IF data = Panicked \/ col >= width_in_bytes
    THEN <<>>
    ELSE LET i == row * width_in_bytes + col
             j == ((height - row - 1) * width_in_bytes) + col
         IN  SwapTouched(data, i, j)
                \o ColsTouched(SwapBytes(data, i, j), row, col + 1, height, width_in_bytes)

\* The indices `for row in 0..half_height` goes to.
RECURSIVE RowsTouched(_, _, _, _, _)
RowsTouched(data, row, half_height, height, width_in_bytes) ==
    IF data = Panicked \/ row >= half_height
    THEN <<>>
    ELSE ColsTouched(data, row, 0, height, width_in_bytes)
            \o RowsTouched(FlipCols(data, row, 0, height, width_in_bytes),
                           row + 1, half_height, height, width_in_bytes)

\* The indices of image.data the flip goes to.
FlipTouched(image) ==
    LET height == image.height
        width_in_bytes == BytesPerPixel * image.width
        half_height == image.height \div 2
    IN  RowsTouched(image.data, 0, half_height, height, width_in_bytes)

\* The indices of the image build goes to.
BuildTouched(b) ==
    IF b.metadata.origin = "BottomLeft" THEN FlipTouched(b.image) ELSE <<>>

\* The value standing for "no atlas": a panicked build, a failed read, no fixture yet.
NoAtlas == [none |-> TRUE]

\* build declaring the atlas TopLeft once its rows are in that order.  C12 does not hold
\* of it.
BuildResetOrigin(b) ==
    IF b.metadata.origin = "BottomLeft"
    THEN LET data == FlipImage(b.image)
         IN  IF data = Panicked
             THEN NoAtlas
             ELSE BitmapFontAtlasNew([b.metadata EXCEPT !.origin = "TopLeft"],
                                     [b.image EXCEPT !.data = data])
    ELSE BitmapFontAtlasNew(b.metadata, b.image)

\* build tagging the image TopLeft once its rows are in that order.  C13 does not hold
\* of it.
BuildRetagImage(b) ==
    IF b.metadata.origin = "BottomLeft"
    THEN LET data == FlipImage(b.image)
         IN  IF data = Panicked
             THEN NoAtlas
             ELSE BitmapFontAtlasNew(b.metadata,
                                     [b.image EXCEPT !.data = data, !.origin = "TopLeft"])
    ELSE BitmapFontAtlasNew(b.metadata, b.image)

\* BitmapFontAtlasBuilder::build: the atlas, or NoAtlas when the flip panics.
Build(builder) ==
    IF builder.metadata.origin = "BottomLeft"
    THEN LET data == FlipImage(builder.image)
         IN  IF data = Panicked
             THEN NoAtlas
             ELSE BitmapFontAtlasNew(builder.metadata, [builder.image EXCEPT !.data = data])
    ELSE BitmapFontAtlasNew(builder.metadata, builder.image)

(***************************************************************************)
(* The collaborators: structured text, raster codec, archive.  Each is     *)
(* modelled by what it produces, so that decode after encode is a          *)
(* computation and not an assumption.                                      *)
(***************************************************************************)
\* serde_json's decimal text of a usize, most significant digit first.
RECURSIVE Digits(_)
Digits(n) == IF n < 10 THEN <<n>> ELSE Append(Digits(n \div 10), n % 10)

\* serde_json's parse of decimal text into a usize.
RECURSIVE ParseDigits(_)
ParseDigits(ds) ==
    IF Len(ds) = 0 THEN 0
    ELSE 10 * ParseDigits(SubSeq(ds, 1, Len(ds) - 1)) + ds[Len(ds)]

\* The text of an f32 held in tenths: integer part, then one decimal.
FloatText(t) == <<Digits(t \div 10), t % 10>>

\* The f32, in tenths, of such a text.
ParseFloat(txt) == 10 * ParseDigits(txt[1]) + txt[2]

\* Serialize for GlyphMetadata (derive, line 15).
GlyphJson(g) ==
    [code_point |-> Digits(g.code_point), row |-> Digits(g.row), column |-> Digits(g.column),
     x_min |-> FloatText(g.x_min), width |-> FloatText(g.width), height |-> FloatText(g.height),
     y_min |-> FloatText(g.y_min), y_offset |-> FloatText(g.y_offset)]

\* Deserialize for GlyphMetadata (derive, line 15).
GlyphFromJson(j) ==
    [code_point |-> ParseDigits(j.code_point), row |-> ParseDigits(j.row),
     column |-> ParseDigits(j.column),
     x_min |-> ParseFloat(j.x_min), width |-> ParseFloat(j.width),
     height |-> ParseFloat(j.height),
     y_min |-> ParseFloat(j.y_min), y_offset |-> ParseFloat(j.y_offset)]

\* The field names of the metadata object.
MetadataFields ==
    {"origin", "dimensions", "columns", "rows", "padding", "slot_glyph_size",
     "glyph_size", "glyph_metadata"}

\* serde_json::to_writer_pretty(&atlas.metadata()): a JSON object, the glyph table an
\* object keyed by the text of the code point.
JsonEncode(metadata) ==
    [kind |-> "json",
     fields |-> MetadataFields,
     origin |-> <<"variant", metadata.origin>>,
     dimensions |-> Digits(metadata.dimensions),
     columns |-> Digits(metadata.columns),
     rows |-> Digits(metadata.rows),
     padding |-> Digits(metadata.padding),
     slot_glyph_size |-> Digits(metadata.slot_glyph_size),
     glyph_size |-> Digits(metadata.glyph_size),
     glyph_metadata |->
        {<<Digits(k), GlyphJson(metadata.glyph_metadata[k])>> : k \in DOMAIN metadata.glyph_metadata}]

\* serde_json::from_reader::<BitmapFontAtlasMetadata>: fails on bytes that are not JSON,
\* on a missing field and on an unknown Origin variant.
JsonDecode(content) ==
    IF content.kind # "json" \/ content.fields # MetadataFields
       \/ content.origin[2] \notin Origin
    THEN [ok |-> FALSE]
    ELSE [ok |-> TRUE,
          value |->
            [origin |-> content.origin[2],
             dimensions |-> ParseDigits(content.dimensions),
             columns |-> ParseDigits(content.columns),
             rows |-> ParseDigits(content.rows),
             padding |-> ParseDigits(content.padding),
             slot_glyph_size |-> ParseDigits(content.slot_glyph_size),
             glyph_size |-> ParseDigits(content.glyph_size),
             glyph_metadata |->
                LET keys == {ParseDigits(e[1]) : e \in content.glyph_metadata}
                IN  [k \in keys |->
                        GlyphFromJson((CHOOSE e \in content.glyph_metadata :
                                          ParseDigits(e[1]) = k)[2])]]]

\* Row `r` (from 0) of a buffer of rows of `stride` bytes.
RowOf(data, r, stride) == SubSeq(data, r * stride + 1, (r + 1) * stride)

\* png::PNGEncoder::encode(data, width, height, ColorType::RGBA(8)): one scanline per
\* row, each led by its filter byte; refuses a buffer that is not width * height pixels.
PngEncode(data, width, height) ==
    IF Len(data) # BytesPerPixel * width * height
    THEN [ok |-> FALSE]
    ELSE [ok |-> TRUE,
          value |->
            [kind |-> "png", width |-> width, height |-> height,
             channels |-> BytesPerPixel,
             scanlines |->
                [r \in 1..height |-> <<0>> \o RowOf(data, r - 1, BytesPerPixel * width)]]]

\* The rows of a scanline sequence, filter bytes removed, end to end.
RECURSIVE Unfilter(_)
Unfilter(lines) ==
    IF Len(lines) = 0 THEN <<>>
    ELSE Tail(Head(lines)) \o Unfilter(Tail(lines))

\* png::PNGDecoder::new, dimensions and read_image: fails on bytes that are not a PNG
\* and on a PNG whose scanlines disagree with its header.
PngDecode(content) ==
    IF content.kind # "png"
    THEN [ok |-> FALSE]
    ELSE IF \/ Len(content.scanlines) # content.height
            \/ \E r \in 1..Len(content.scanlines) :
                  Len(content.scanlines[r]) # 1 + content.channels * content.width
    THEN [ok |-> FALSE]
    ELSE [ok |-> TRUE, width |-> content.width, height |-> content.height,
          image |-> Unfilter(content.scanlines)]

\* Bytes that are neither JSON nor a PNG.
Garbage == [kind |-> "garbage"]

\* zip::ZipArchive::by_name: the entries of that name.
ByName(zip, name) == {i \in 1..Len(zip.entries) : zip.entries[i].name = name}

\* The content by_name hands to the decoder.
EntryContent(zip, name) == zip.entries[CHOOSE i \in ByName(zip, name) : TRUE].content

\* An empty buffer: io::Cursor::new(vec![]).
EmptyCursor == [archive |-> FALSE, entries |-> <<>>]

(***************************************************************************)
(* Reading.                                                                *)
(***************************************************************************)
\* enum ErrorKind
ErrorKind ==
    {"FileNotFound", "FileExistsButCannotBeOpened", "FontAtlasImageNotFound",
     "CannotLoadAtlasImage", "FontMetadataNotFound", "CannotLoadAtlasMetadata"}

\* Err(Error::new(kind, ..)) together with the stages the call went through.
ReadErr(kind, stages) == [kind |-> kind, atlas |-> NoAtlas, stages |-> stages]

\* from_reader with the image entry looked up before the metadata is decoded.  C2 does
\* not hold of it.
FromReaderImageEntryFirst(reader) ==
    LET s1 == <<"archive">>
        s2 == Append(s1, "metadata_entry")
        s3 == Append(s2, "image_entry")
        s4 == Append(s3, "metadata_decode")
        s5 == Append(s4, "image_decode")
        s6 == Append(s5, "build")
    IN  IF ~reader.archive
        THEN ReadErr("FileExistsButCannotBeOpened", s1)
        ELSE IF ByName(reader, "metadata.json") = {}
        THEN ReadErr("FontMetadataNotFound", s2)
        ELSE IF ByName(reader, "atlas.png") = {}
        THEN ReadErr("FontAtlasImageNotFound", s3)
        ELSE LET metadata == JsonDecode(EntryContent(reader, "metadata.json"))
                 png == PngDecode(EntryContent(reader, "atlas.png"))
             IN  IF ~metadata.ok
                 THEN ReadErr("CannotLoadAtlasMetadata", s4)
                 ELSE IF ~png.ok
                 THEN ReadErr("CannotLoadAtlasImage", s5)
                 ELSE LET atlas ==
                              Build(BitmapFontAtlasBuilderNew(
                                        metadata.value,
                                        BitmapFontAtlasImageNew(png.image, png.width, png.height,
                                                                metadata.value.origin)))
                      IN  IF atlas = NoAtlas
                          THEN [kind |-> "Panic", atlas |-> NoAtlas, stages |-> s6]
                          ELSE [kind |-> "Ok", atlas |-> atlas, stages |-> s6]

\* from_reader: the Result, with the stages attempted in order.
FromReader(reader) ==
    LET s1 == <<"archive">>
        s2 == Append(s1, "metadata_entry")
        s3 == Append(s2, "metadata_decode")
        s4 == Append(s3, "image_entry")
        s5 == Append(s4, "image_decode")
        s6 == Append(s5, "build")
    IN  IF ~reader.archive
        THEN ReadErr("FileExistsButCannotBeOpened", s1)
        ELSE IF ByName(reader, "metadata.json") = {}
        THEN ReadErr("FontMetadataNotFound", s2)
        ELSE LET metadata == JsonDecode(EntryContent(reader, "metadata.json"))
             IN  IF ~metadata.ok
                 THEN ReadErr("CannotLoadAtlasMetadata", s3)
                 ELSE IF ByName(reader, "atlas.png") = {}
                 THEN ReadErr("FontAtlasImageNotFound", s4)
                 ELSE LET png == PngDecode(EntryContent(reader, "atlas.png"))
                      IN  IF ~png.ok
                          THEN ReadErr("CannotLoadAtlasImage", s5)
                          ELSE LET atlas_image ==
                                       BitmapFontAtlasImageNew(png.image, png.width,
                                                               png.height, metadata.value.origin)
                                   builder ==
                                       BitmapFontAtlasBuilderNew(metadata.value, atlas_image)
                                   atlas == Build(builder)
                               IN  IF atlas = NoAtlas
                                   THEN [kind |-> "Panic", atlas |-> NoAtlas, stages |-> s6]
                                   ELSE [kind |-> "Ok", atlas |-> atlas, stages |-> s6]

\* The builder from_reader makes of a file whose five stages pass (lines 359-362).
ReaderBuilder(reader) ==
    LET metadata == JsonDecode(EntryContent(reader, "metadata.json"))
        png == PngDecode(EntryContent(reader, "atlas.png"))
    IN  BitmapFontAtlasBuilderNew(
            metadata.value,
            BitmapFontAtlasImageNew(png.image, png.width, png.height, metadata.value.origin))

\* The indices of the decoded image a read with the Result r went to: those of build,
\* when the read got as far as build.
ReaderTouched(r, reader) ==
    IF Len(r.stages) > 0 /\ r.stages[Len(r.stages)] = "build"
    THEN BuildTouched(ReaderBuilder(reader))
    ELSE <<>>

\* load with the failure of File::open dropped instead of returned.  C6 does not hold
\* of it.
LoadIgnoringOpen(exists, file) ==
    LET r == FromReader(file)
    IN  [r EXCEPT !.stages = <<"open">> \o r.stages]

\* load: File::open, then from_reader on the file.
Load(exists, file) ==
    IF ~exists
    THEN ReadErr("FileNotFound", <<"open">>)
    ELSE LET r == FromReader(file)
         IN  [r EXCEPT !.stages = <<"open">> \o r.stages]

(***************************************************************************)
(* Writing.                                                                *)
(***************************************************************************)
\* Where the writer underneath the archive may refuse: each `?` of to_writer.
Faults == {"none", "start_metadata", "write_metadata", "start_image", "encode", "finish"}

\* The flip done on atlas.image itself, as through a mutable borrow, and not on a
\* clone.  C5 does not hold of it.
ToWriterImageInPlace(atlas) ==
    LET image == atlas.image
        data == IF image.origin = "BottomLeft" THEN FlipImage(image) ELSE image.data
    IN  [data |-> data,
         atlas |-> IF data = Panicked THEN atlas ELSE [atlas EXCEPT !.image.data = data]]

\* `let mut image = atlas.image.clone()` and the flip of the clone: the bytes handed to
\* the encoder, and the caller's atlas as the borrow leaves it.
ToWriterImage(atlas) ==
    LET image == atlas.image
    IN  [data |-> IF image.origin = "BottomLeft" THEN FlipImage(image) ELSE image.data,
         atlas |-> atlas]

\* The indices of the clone to_writer goes to: none when the call returns before the
\* clone is made.
ToWriterTouched(atlas, fault) ==
    IF fault \in {"start_metadata", "write_metadata"} \/ atlas.image.origin # "BottomLeft"
    THEN <<>>
    ELSE FlipTouched(atlas.image)

\* What an abandoned ZipWriter leaves in the sink.
Abandoned(entries, finalized) == [archive |-> finalized, entries |-> entries]

\* to_writer with the metadata written into the archive a second time, after the image.
\* C8 does not hold of it.
ToWriterMetadataTwice(atlas, fault, finalized) ==
    LET metadata_entry ==
            [name |-> "metadata.json", content |-> JsonEncode(Metadata(atlas))]
        copy == ToWriterImage(atlas)
        png == IF copy.data = Panicked THEN [ok |-> FALSE]
               ELSE PngEncode(copy.data, atlas.dimensions, atlas.dimensions)
        calls == <<"start_file metadata.json", "write metadata.json",
                   "start_file atlas.png", "write atlas.png",
                   "start_file metadata.json", "write metadata.json", "finish">>
    IN  IF fault # "none" \/ copy.data = Panicked \/ ~png.ok
        THEN [status |-> IF copy.data = Panicked THEN "Panic" ELSE "Err",
              sink |-> Abandoned(<<>>, finalized), calls |-> SubSeq(calls, 1, 1),
              atlas |-> copy.atlas]
        ELSE [status |-> "Ok",
              sink |-> [archive |-> TRUE,
                        entries |-> <<metadata_entry,
                                      [name |-> "atlas.png", content |-> png.value],
                                      metadata_entry>>],
              calls |-> calls, atlas |-> copy.atlas]

\* to_writer: the io::Result, the sink's content, the archive calls made in order and
\* the caller's atlas after the call.  `finalized` is whether a ZipWriter dropped on an
\* early return still gets its directory out.
ToWriter(atlas, fault, finalized) ==
    LET metadata_entry ==
            [name |-> "metadata.json", content |-> JsonEncode(Metadata(atlas))]
        copy == ToWriterImage(atlas)
        png == IF copy.data = Panicked THEN [ok |-> FALSE]
               ELSE PngEncode(copy.data, atlas.dimensions, atlas.dimensions)
        e1 == <<"start_file metadata.json">>
        e2 == Append(e1, "write metadata.json")
        e3 == Append(e2, "start_file atlas.png")
        e4 == Append(e3, "write atlas.png")
        e5 == Append(e4, "finish")
        Out(status, sink, calls) ==
            [status |-> status, sink |-> sink, calls |-> calls, atlas |-> copy.atlas]
    IN  IF fault = "start_metadata"
        THEN Out("Err", Abandoned(<<>>, finalized), e1)
        ELSE IF fault = "write_metadata"
        THEN Out("Err", Abandoned(<<[name |-> "metadata.json", content |-> Garbage]>>,
                                  finalized), e2)
        ELSE IF copy.data = Panicked
        THEN Out("Panic", Abandoned(<<metadata_entry>>, finalized), e2)
        ELSE IF fault = "start_image"
        THEN Out("Err", Abandoned(<<metadata_entry>>, finalized), e3)
        ELSE IF fault = "encode" \/ ~png.ok
        THEN Out("Err", Abandoned(<<metadata_entry,
                                    [name |-> "atlas.png", content |-> Garbage]>>,
                                  finalized), e4)
        ELSE LET entries == <<metadata_entry, [name |-> "atlas.png", content |-> png.value]>>
             IN  IF fault = "finish"
                 THEN Out("Err", Abandoned(entries, finalized), e5)
                 ELSE Out("Ok", [archive |-> TRUE, entries |-> entries], e5)

\* write_to_file: File::create on the path with the bmfa extension, then to_writer.
WriteToFile(atlas, created, fault, finalized, old) ==
    IF ~created
    THEN [status |-> "Err", sink |-> old, calls |-> <<>>, atlas |-> atlas]
    ELSE ToWriter(atlas, fault, finalized)

(***************************************************************************)
(* The values the operations are driven with.                              *)
(***************************************************************************)
\* A glyph table with no glyph, and one with 'A' and 'B'.
GlyphTables ==
    {[k \in {} |-> 0],
     [k \in {65, 66} |->
        IF k = 65 THEN GlyphMetadataNew(65, 0, 0, 6, 7, 1, 2, 3)
                  ELSE GlyphMetadataNew(66, 0, 1, 12, 10, 0, 4, 5)]}

\* Grids for which the three scalar invariants hold: one slot or one pixel per slot.
ValidGrids ==
    {g \in {[dimensions |-> d, columns |-> c, rows |-> c, padding |-> p,
             slot_glyph_size |-> d \div c, glyph_size |-> (d \div c) - p] :
                d \in 1..MaxDim, c \in 1..MaxDim, p \in {0, 1}} :
        g.columns \in {1, g.dimensions} /\ g.padding < g.slot_glyph_size}

\* Those grids, and for each one a grid that breaks the invariants.
Grids ==
    ValidGrids
    \cup {[g EXCEPT !.rows = g.rows + 1, !.slot_glyph_size = g.slot_glyph_size + 1] :
            g \in ValidGrids}

\* BitmapFontAtlasMetadata values: struct literals of the pub fields.
Metadatas ==
    {[origin |-> o, dimensions |-> g.dimensions, columns |-> g.columns, rows |-> g.rows,
      padding |-> g.padding, slot_glyph_size |-> g.slot_glyph_size,
      glyph_size |-> g.glyph_size, glyph_metadata |-> t] :
        o \in Origin, g \in Grids, t \in GlyphTables}

\* A buffer of n bytes, all different from their neighbours: seed + 1, seed + 2, ...
Ramp(n, seed) == [i \in 1..n |-> (seed + i) % ByteRange]

\* The first bytes of the ramps; the second makes the bytes wrap around.
Seeds == {0, 250}

\* Buffers for a width and a height: of 4 * width * height bytes, and one byte short.
Buffers(width, height) ==
    LET n == BytesPerPixel * width * height
    IN  {Ramp(n, seed) : seed \in Seeds} \cup (IF n > 0 THEN {Ramp(n - 1, 0)} ELSE {})

\* BitmapFontAtlasImage values a caller can make with BitmapFontAtlasImage::new, of the
\* given <<width, height>> shapes.
Images(shapes) ==
    UNION {{BitmapFontAtlasImageNew(data, s[1], s[2], o) : data \in Buffers(s[1], s[2])} :
             s \in shapes, o \in Origin}

\* Every shape within the bound, the empty ones included.
AllShapes == (0..MaxDim) \X (0..MaxDim)

\* The shapes an atlas of side d is given: the square, a row short, one row of the
\* same area, and no column at all.
ShapesOf(d) == {<<d, d>>, <<d, d - 1>>, <<d * d, 1>>, <<0, d>>}

\* The arguments of BitmapFontAtlas::new.
AtlasInputs ==
    UNION {{<<m, i>> : i \in Images(ShapesOf(m.dimensions))} : m \in Metadatas}

\* The arguments of BitmapFontAtlasBuilder::new.
BuilderInputs == Metadatas \X Images(AllShapes)

\* PNG streams on disk of the given shapes: RGBA and RGB, and those of width 1 with
\* the last scanline missing.
PngFiles(shapes) ==
    LET whole ==
            {[kind |-> "png", width |-> s[1], height |-> s[2], channels |-> ch,
              scanlines |-> [r \in 1..s[2] |->
                                <<0>> \o RowOf(Ramp(ch * s[1] * s[2], seed), r - 1, ch * s[1])]] :
                s \in {x \in shapes : x[1] > 0 /\ x[2] > 0},
                ch \in {3, BytesPerPixel}, seed \in Seeds}
    IN  whole \cup {[f EXCEPT !.scanlines = SubSeq(f.scanlines, 1, f.height - 1)] :
                      f \in {g \in whole : g.channels = BytesPerPixel /\ g.width = 1}}

\* A metadata entry with the `origin` field left out.
WithoutOrigin(m) == [JsonEncode(m) EXCEPT !.fields = MetadataFields \ {"origin"}]

\* The image entries a file is given next to the metadata m: none, not a PNG, or a PNG
\* of one of the shapes of m.dimensions.
ImageEntries(m) ==
    {<<>>} \cup {<<[name |-> "atlas.png", content |-> f]>> :
                   f \in PngFiles(ShapesOf(m.dimensions)) \cup {Garbage}}

\* The metadata entries a file is given for the metadata m: none, not JSON, JSON with a
\* field missing, or the JSON of m.
MetadataEntries(m) ==
    {<<>>} \cup {<<[name |-> "metadata.json", content |-> j]>> :
                   j \in {JsonEncode(m), WithoutOrigin(m), Garbage}}

\* Files on disk: an archive (or not one) with or without either entry.
Files ==
    UNION {{[archive |-> a, entries |-> me \o pe] :
              a \in BOOLEAN, me \in MetadataEntries(m), pe \in ImageEntries(m)} :
           m \in Metadatas}

(***************************************************************************)
(* The state: what a caller of the library holds.                          *)
(***************************************************************************)
VARIABLES
    expected_atlas,  \* the atlas the caller holds and passes to the writer
    cursor,          \* the buffer or file the archive is written to and read from
    written,         \* the outcome of the last write
    result,          \* the Result of the last read
    builder,         \* a BitmapFontAtlasBuilder
    builds,          \* the atlases built from it, in order
    touched,         \* the buffer indices the flip of the last call went to, in order
    phase            \* where the caller is

vars == <<expected_atlas, cursor, written, result, builder, builds, touched, phase>>

NoWrite == [status |-> "None", calls |-> <<>>]
NoResult == [kind |-> "None", atlas |-> NoAtlas, stages |-> <<>>]
NoBuilder == [none |-> TRUE]

Init ==
    /\ expected_atlas = NoAtlas
    /\ cursor = EmptyCursor
    /\ written = NoWrite
    /\ result = NoResult
    /\ builder = NoBuilder
    /\ builds = <<>>
    /\ touched = <<>>
    /\ phase = "start"

\* The caller makes an atlas from its own metadata and image.
New(metadata, image) ==
    /\ expected_atlas' = BitmapFontAtlasNew(metadata, image)
    /\ phase' = "constructed"
    /\ UNCHANGED <<cursor, written, result, builder, builds, touched>>

\* The caller starts from a file that is already there.
PutFile(file) ==
    /\ cursor' = file
    /\ phase' = "file"
    /\ UNCHANGED <<expected_atlas, written, result, builder, builds, touched>>

\* The effect of a write on the caller's state.
Wrote(w, indices) ==
    /\ expected_atlas' = w.atlas
    /\ touched' = indices
    /\ cursor' = w.sink
    /\ written' = [status |-> w.status, calls |-> w.calls]
    /\ result' = NoResult
    /\ phase' = IF w.status = "Ok" THEN "written" ELSE "write_failed"
    /\ UNCHANGED <<builder, builds>>

\* to_writer(&mut cursor, &expected_atlas)
ToWriterCall(fault, finalized) ==
    /\ phase \in {"constructed", "loaded"}
    /\ Wrote(ToWriter(expected_atlas, fault, finalized),
             ToWriterTouched(expected_atlas, fault))

\* write_to_file(path, &expected_atlas)
WriteToFileCall(created, fault, finalized) ==
    /\ phase \in {"constructed", "loaded"}
    /\ Wrote(WriteToFile(expected_atlas, created, fault, finalized, cursor),
             IF created THEN ToWriterTouched(expected_atlas, fault) ELSE <<>>)

\* The effect of a read on the caller's state.
ReadBack(r, same) ==
    /\ result' = r
    /\ touched' = ReaderTouched(r, cursor)
    /\ phase' = IF phase = "written" /\ same THEN "read_back" ELSE "read"
    /\ UNCHANGED <<expected_atlas, cursor, written, builder, builds>>

\* from_reader(&mut cursor)
FromReaderCall ==
    /\ phase \in {"file", "written", "write_failed"}
    /\ ReadBack(FromReader(cursor), TRUE)

\* load(path): of the path the file is at, or of a path where there is no file.
LoadCall(exists) ==
    /\ phase \in {"file", "written", "write_failed"}
    /\ ReadBack(Load(exists, cursor), exists)

\* let expected_atlas = result.unwrap()
Unwrap ==
    /\ phase \in {"read", "read_back"}
    /\ result.kind = "Ok"
    /\ expected_atlas' = result.atlas
    /\ phase' = "loaded"
    /\ UNCHANGED <<cursor, written, result, builder, builds, touched>>

\* BitmapFontAtlasBuilder::new(metadata, image)
BuilderNew(metadata, image) ==
    /\ builder' = BitmapFontAtlasBuilderNew(metadata, image)
    /\ phase' = "builder"
    /\ UNCHANGED <<expected_atlas, cursor, written, result, builds, touched>>

\* builder.build(), first of the builder, then of a builder made of what was built.
BuildCall ==
    /\ phase \in {"builder", "built"}
    /\ LET b == IF phase = "builder" THEN builder
                ELSE BitmapFontAtlasBuilderNew(Metadata(builds[1]), builds[1].image)
           atlas == Build(b)
       IN  /\ builds' = Append(builds, atlas)
           /\ touched' = BuildTouched(b)
           /\ phase' = IF atlas = NoAtlas THEN "panicked"
                       ELSE IF phase = "builder" THEN "built" ELSE "rebuilt"
    /\ UNCHANGED <<expected_atlas, cursor, written, result, builder>>

Next ==
    \/ phase = "start" /\ \E in \in AtlasInputs : New(in[1], in[2])
    \/ phase = "start" /\ \E f \in Files : PutFile(f)
    \/ \E fault \in Faults, fin \in BOOLEAN : ToWriterCall(fault, fin)
    \/ \E created \in BOOLEAN, fault \in Faults, fin \in BOOLEAN :
          WriteToFileCall(created, fault, fin)
    \/ FromReaderCall
    \/ \E exists \in BOOLEAN : LoadCall(exists)
    \/ Unwrap
    \/ phase = "start" /\ \E in \in BuilderInputs : BuilderNew(in[1], in[2])
    \/ BuildCall

Spec == Init /\ [][Next]_vars

(***************************************************************************)
(* Properties.                                                             *)
(***************************************************************************)
\* The caller has read something: the last call was from_reader or load.
HasRead == phase \in {"read", "read_back"}

\* The PNG the last successful write put in the archive, decoded.
WrittenImage == PngDecode(EntryContent(cursor, "atlas.png"))

\* The faults of the five stages of a read, each judged on the file alone.
ArchiveFault == ~cursor.archive
MetadataMissing == \A i \in 1..Len(cursor.entries) : cursor.entries[i].name # "metadata.json"
MetadataCorrupt ==
    \E i \in 1..Len(cursor.entries) :
        /\ cursor.entries[i].name = "metadata.json"
        /\ ~JsonDecode(cursor.entries[i].content).ok
ImageMissing == \A i \in 1..Len(cursor.entries) : cursor.entries[i].name # "atlas.png"
ImageCorrupt ==
    \E i \in 1..Len(cursor.entries) :
        /\ cursor.entries[i].name = "atlas.png"
        /\ ~PngDecode(cursor.entries[i].content).ok

\* The first stage at fault, 6 when none is.
FirstFault ==
    IF ArchiveFault THEN 1
    ELSE IF MetadataMissing THEN 2
    ELSE IF MetadataCorrupt THEN 3
    ELSE IF ImageMissing THEN 4
    ELSE IF ImageCorrupt THEN 5
    ELSE 6

\* The stages in the order the claim gives them, and the error kind of each.
StageOrder == <<"archive", "metadata_entry", "metadata_decode", "image_entry", "image_decode">>
StageKind ==
    <<"FileExistsButCannotBeOpened", "FontMetadataNotFound", "CannotLoadAtlasMetadata",
      "FontAtlasImageNotFound", "CannotLoadAtlasImage">>

\* The stages of from_reader in the last read: those of load without File::open.
ReaderStages ==
    IF Len(result.stages) > 0 /\ Head(result.stages) = "open"
    THEN Tail(result.stages)
    ELSE result.stages

\* C1 (as stated): after a successful to_writer of an atlas whose image is
\* 4 * dimensions^2 bytes long, reading the container back succeeds and returns an
\* atlas equal to the one written in every field, the image's origin tag, width,
\* height and bytes included.
C1_RoundTrip ==
    (phase = "read_back" /\ LenBytes(expected_atlas.image)
                              = BytesPerPixel * expected_atlas.dimensions * expected_atlas.dimensions)
        => (result.kind = "Ok" /\ result.atlas = expected_atlas)

\* C2: a read reports the error kind of the first stage at fault, in the order archive,
\* metadata entry, metadata decode, image entry, image decode, and goes through no
\* stage after it; with no stage at fault it reports no error kind.
C2_FirstFailingStage ==
    (HasRead /\ result.kind # "FileNotFound") =>
        IF FirstFault <= 5
        THEN /\ result.kind = StageKind[FirstFault]
             /\ ReaderStages = SubSeq(StageOrder, 1, FirstFault)
        ELSE result.kind \notin ErrorKind

\* C2 witness: a file with corrupt metadata and no image has been read, and the read
\* reported the metadata.
C2_Witness ==
    /\ HasRead
    /\ ~ArchiveFault /\ MetadataCorrupt /\ ImageMissing
    /\ result.kind = "CannotLoadAtlasMetadata"

\* C3 (as stated): when both entries decode and the decoded image is not
\* 4 * dimensions^2 bytes long, the read returns CannotLoadAtlasImage.
C3_LengthMismatchRejected ==
    (/\ HasRead /\ result.kind # "FileNotFound"
     /\ FirstFault = 6
     /\ Len(PngDecode(EntryContent(cursor, "atlas.png")).image)
          # BytesPerPixel * JsonDecode(EntryContent(cursor, "metadata.json")).value.dimensions
                          * JsonDecode(EntryContent(cursor, "metadata.json")).value.dimensions)
        => result.kind = "CannotLoadAtlasImage"

\* C4 (as stated): every atlas a read returns satisfies the four structural invariants.
C4_StructuralInvariants ==
    (HasRead /\ result.kind = "Ok") =>
        /\ result.atlas.dimensions = result.atlas.columns * result.atlas.slot_glyph_size
        /\ result.atlas.dimensions = result.atlas.rows * result.atlas.slot_glyph_size
        /\ result.atlas.slot_glyph_size = result.atlas.padding + result.atlas.glyph_size
        /\ LenBytes(result.atlas.image)
             = BytesPerPixel * result.atlas.dimensions * result.atlas.dimensions

\* C5: a call of to_writer or write_to_file, whether it succeeds or fails, leaves the
\* caller's atlas as it was.
C5_WriteLeavesAtlas ==
    [][phase' \in {"written", "write_failed"} => expected_atlas' = expected_atlas]_vars

\* C5 witness: a write has succeeded for which the bytes encoded are not the bytes of
\* the atlas, that is, the copy was flipped.
C5_Witness ==
    /\ phase = "written"
    /\ expected_atlas.image.origin = "BottomLeft"
    /\ WrittenImage.image # expected_atlas.image.data

\* C6: load of a path where there is no file returns FileNotFound having gone through
\* no stage but the open.
C6_LoadMissingFile ==
    [][LoadCall(FALSE) => (result'.kind = "FileNotFound" /\ result'.stages = <<"open">>)]_vars

\* C6 witness: a load has returned FileNotFound while a readable archive was at hand.
C6_Witness ==
    /\ phase = "read"
    /\ result.kind = "FileNotFound"
    /\ FirstFault = 6

\* The builder's image is width * height pixels long.
BuilderImageWhole ==
    LenBytes(builder.image) = BytesPerPixel * builder.image.width * builder.image.height

\* C7: a buffer of 4 * width * height bytes flipped twice is the buffer again.
C7_FlipInvolution ==
    (phase = "rebuilt" /\ builder.metadata.origin = "BottomLeft" /\ BuilderImageWhole)
        => builds[2].image.data = builder.image.data

\* C7 witness: an image of odd height has been flipped twice, the first flip having
\* changed it.
C7_Witness ==
    /\ phase = "rebuilt"
    /\ builder.metadata.origin = "BottomLeft"
    /\ BuilderImageWhole
    /\ builder.image.height = 3
    /\ builds[1].image.data # builder.image.data

\* C8: after a successful to_writer the container is a finalized archive of exactly the
\* entries metadata.json and atlas.png, in that order, and the archive calls were
\* start metadata, write metadata, start image, write image, finish, in that order.
C8_TwoEntries ==
    phase = "written" =>
        /\ cursor.archive
        /\ [i \in 1..Len(cursor.entries) |-> cursor.entries[i].name]
             = <<"metadata.json", "atlas.png">>
        /\ written.calls = <<"start_file metadata.json", "write metadata.json",
                             "start_file atlas.png", "write atlas.png", "finish">>

\* C8 witness: a write has succeeded.
C8_Witness == phase = "written" /\ written.status = "Ok"

\* C9 (as stated): the image a successful write encodes is the flipped image exactly
\* when the atlas's origin is BottomLeft, and the image itself otherwise.
C9_FlipByAtlasOrigin ==
    phase = "written" =>
        WrittenImage.image = IF expected_atlas.origin = "BottomLeft"
                             THEN FlipImage(expected_atlas.image)
                             ELSE expected_atlas.image.data

\* C10: build with origin BottomLeft returns the rows of its image in reverse order,
\* each row as it was; with origin TopLeft it returns the bytes as they were.
C10_BuildReversesRows ==
    (phase = "built" /\ BuilderImageWhole) =>
        LET H == builder.image.height
            stride == BytesPerPixel * builder.image.width
            out == builds[1].image.data
        IN  IF builder.metadata.origin = "BottomLeft"
            THEN /\ Len(out) = Len(builder.image.data)
                 /\ \A r \in 0..(H - 1) :
                       RowOf(out, r, stride) = RowOf(builder.image.data, H - 1 - r, stride)
            ELSE out = builder.image.data

\* C10 witness: an image of three rows has been built with origin BottomLeft.
C10_Witness ==
    /\ phase = "built"
    /\ BuilderImageWhole
    /\ builder.metadata.origin = "BottomLeft"
    /\ builder.image.height = 3
    /\ builder.image.width >= 1

\* The image has no row or no column.
EmptyImage(image) == image.width = 0 \/ image.height = 0

\* C11: the flip of an image of zero height or zero width, in build and in to_writer and
\* for either origin, goes to no index of the buffer, does not panic and, in build,
\* returns the bytes as they were.
C11_EmptyImageUntouched ==
    /\ (phase \in {"built", "rebuilt", "panicked"} /\ EmptyImage(builder.image)) =>
          /\ touched = <<>>
          /\ phase # "panicked"
          /\ builds[Len(builds)].image = builder.image
    /\ (phase \in {"written", "write_failed"} /\ EmptyImage(expected_atlas.image)) =>
          /\ touched = <<>>
          /\ written.status # "Panic"

\* C11 witness: an image of no column and two rows or more, for which the outer loop
\* runs, has been built with origin BottomLeft.
C11_Witness ==
    /\ phase = "built"
    /\ builder.metadata.origin = "BottomLeft"
    /\ builder.image.width = 0
    /\ builder.image.height >= 2

\* C12: the atlas build returns has the origin, dimensions, columns, rows, padding,
\* slot_glyph_size, glyph_size and glyph table of the builder's metadata, and an image
\* of the width, height, byte length and origin tag of the builder's image.
C12_BuildKeepsFields ==
    phase = "built" =>
        /\ builds[1].origin = builder.metadata.origin
        /\ Metadata(builds[1]) = builder.metadata
        /\ builds[1].image.width = builder.image.width
        /\ builds[1].image.height = builder.image.height
        /\ LenBytes(builds[1].image) = LenBytes(builder.image)
        /\ builds[1].image.origin = builder.image.origin

\* C12 witness: a build with origin BottomLeft and a glyph table has changed the bytes.
C12_Witness ==
    /\ phase = "built"
    /\ builder.metadata.origin = "BottomLeft"
    /\ DOMAIN builder.metadata.glyph_metadata # {}
    /\ builds[1].image.data # builder.image.data

\* C13: every atlas a read returns has image.origin equal to its origin, which is the
\* origin metadata.json declares, so that to_writer flips it exactly when build has;
\* the same holds of the atlas the caller takes from a read and writes again, and a
\* read back of that write returns the origin written.
C13_OriginsAgree ==
    /\ (HasRead /\ result.kind = "Ok") =>
          /\ result.atlas.image.origin = result.atlas.origin
          /\ result.atlas.image.origin
               = JsonDecode(EntryContent(cursor, "metadata.json")).value.origin
    /\ phase = "loaded" => expected_atlas.image.origin = expected_atlas.origin
    /\ (phase = "read_back" /\ result.kind = "Ok") =>
          result.atlas.origin = expected_atlas.origin

\* C13 witness: an atlas read from a file has been written and read back, both flips
\* having run.
C13_Witness ==
    /\ phase = "read_back"
    /\ result.kind = "Ok"
    /\ result.atlas = expected_atlas
    /\ result.atlas.origin = "BottomLeft"
    /\ result.atlas.image.height >= 2
    /\ touched # <<>>

====
